---- MODULE Spec2Model ----
(***************************************************************************)
(* Order lifecycle, coin ledger and settlement of the chicken tender       *)
(* marketplace.  One order, a fixed set of users, the MongoDB collections  *)
(* (users, orders, transactions, audits, agenda jobs) as committed state,  *)
(* and the request handlers / agenda jobs currently in flight, each        *)
(* advancing one promise-chain step (one database round trip) at a time.   *)
(*                                                                         *)
(* Storage semantics modelled (MongoDB 4 multi-document transactions):     *)
(*  - writes made through a session are buffered and become visible only   *)
(*    at commitTransaction; abortTransaction discards them;                *)
(*  - a transactional write to a document that was modified by someone     *)
(*    else after the transaction's snapshot, or that carries another       *)
(*    transaction's uncommitted write, fails with a WriteConflict;         *)
(*  - a non-transactional write to a document carrying an uncommitted      *)
(*    transactional write waits until that transaction has ended;          *)
(*  - a mongoose document save() sends $set / $push of the modified paths  *)
(*    filtered by _id only.                                                *)
(***************************************************************************)
EXTENDS Integers, Sequences, FiniteSets, Bags, TLC

\* ---------------------------------------------------------------- bounds
MaxTasks == 2          \* request handlers / jobs in flight at once
MaxLedger == 2         \* committed coin operations (ledger length)
MaxAdmin == 1          \* enable / disable / delete operations performed
MaxClock == 4          \* the clock stops here
MaxCoinOps == 3        \* committed coin operations while no order exists yet

\* ------------------------------------------------------- program values
Users == {"A", "B", "C"}
NoUser == "nobody"
\* a user who has registered (authenticateFromProfile) and is not enabled yet
NewUser == "C"
OrderDoc == "order"
\* the user who administers the installation
FirstAdmin == "A"
\* who may send a request: the users, and somebody with no session
Requesters == Users \cup {"anon"}
\* the role a route asks for; NoRole for the routes open to every user
NoRole == "none"
RouteRoles == {NoRole, "order-creator", "admin"}
\* req.body.roles of POST /setRoles
RoleInputs == {{}, {"admin", "order-creator"}}

\* config.dbMigration: the target version and the steps
targetVersion == 2
steps == {[from |-> 1, to |-> 2]}
\* no schemaVersion document
NoVersion == 0
\* what the schemaVersion collection may hold when the server starts
StoredVersions == {NoVersion, 1, 2, 3}

\* staticConfig.orderTypes: the configured order types and their cost
orderTypes == {[name |-> "tenders", cost |-> 5]}
\* cost of an order whose type is not configured (createOrder)
DefaultCost == 1
\* ORDER_CLOSE_TIMEOUT (30 minutes), in clock units of 15 minutes
orderCloseTimeout == 2
\* values the request bodies carry
LocationInputs == {"tenders", "other"}
CloseDateInputs == {1}
\* req.body[field] of POST /join: not sent, sent empty, or a value
Absent == "undefined"
Given == "fries"
BodyInputs == {Absent, "", Given}
TransferInputs == {0, 6, 11}
SetCoinsInputs == {10}
PurchaserInputs == Users \cup {"ghost"}

OrderState == {"Open", "Closing", "Closed", "Archived", "Cancelled"}
NoOrder == "None"

VARIABLES
  coins,      \* users collection: coins of each user document
  ustate,     \* users collection: "enabled" | "disabled" | "deleted"
  order,      \* orders collection: the order document (state "None": not created)
  ledger,     \* transactions collection, oldest first
  audits,     \* audits collection, oldest first
  jobs,       \* agenda collection: the pending jobs of the order, [name, due]
  handlers,   \* bag of the handlers in flight: promise-chain position, locals,
              \* and the open transaction of the handler's session
  nadmin,     \* enable / disable / delete operations performed so far
  cancelled,  \* history: a cancelOrder update has matched the order
  mails,      \* history: 'orderClosing' notifications handed to the mailer
  now,        \* the clock new Date() / moment() reads
  lost,       \* history: templates of the notifications the mailer failed to send
  roles,      \* users collection: the roles of each user document
  upg         \* start-up: position of upgradeDatabase, the schemaVersion
              \* document, and history: the version found and the steps run

vars == <<coins, ustate, order, ledger, audits, jobs, handlers, nadmin, cancelled,
          mails, now, lost, roles, upg>>

\* ------------------------------------------------------------- helpers
Range(s) == {s[i] : i \in 1..Len(s)}

RECURSIVE SelectSeqNot(_, _)
\* Array.filter / $pull: the elements of s different from u, in order
SelectSeqNot(s, u) ==
  IF s = <<>> THEN <<>>
  ELSE IF Head(s) = u THEN SelectSeqNot(Tail(s), u)
       ELSE <<Head(s)>> \o SelectSeqNot(Tail(s), u)

HasDuplicates(s) == \E i, j \in 1..Len(s) : i # j /\ s[i] = s[j]

ZeroCoins == [u \in Users |-> 0]

\* a handler that has just been entered: no locals set, no transaction open
NewHandler ==
  [pc |-> "start", user |-> NoUser, other |-> NoUser, amount |-> 0,
   newState |-> NoOrder, manual |-> FALSE,
   userOrders |-> <<>>, cost |-> 0, popCoins |-> ZeroCoins,
   prevA |-> 0, prevB |-> 0, time |-> 0, details |-> Absent,
   dirty |-> {}, wset |-> {}, wval |-> ZeroCoins, worder |-> FALSE]

InFlight == BagToSet(handlers)
Room == BagCardinality(handlers) < MaxTasks

\* the promise-chain positions at which the session's transaction is open
TxnPcs == {"logPurchaser", "logParticipants", "logOrderSave", "logCommit",
           "xferSource", "xferCommit", "setCommit"}

TxnActive(h) == h.pc \in TxnPcs

\* the documents the open transaction of h has yet to write
ToWrite(h) ==
  CASE h.pc = "logPurchaser" -> {h.other} \cup Range(h.userOrders) \cup {OrderDoc}
    [] h.pc = "logParticipants" -> (Range(h.userOrders) \ {h.other}) \cup {OrderDoc}
    [] h.pc = "logOrderSave" -> {OrderDoc}
    [] h.pc = "xferSource" -> {h.user}
    [] OTHER -> {}

\* documents carrying an uncommitted write of h's transaction
WriteSet(h) == h.wset \cup (IF h.worder THEN {OrderDoc} ELSE {})
Locked(d) == \E h \in InFlight : d \in WriteSet(h)
\* write locks are exclusive: a lock h does not hold is held by another handler
LockedByOther(d, h) == d \notin WriteSet(h) /\ Locked(d)

\* WriteConflict: the document changed after the snapshot or is write-locked
Conflicts(h, d) == d \in h.dirty \/ LockedByOther(d, h)

\* a committed write to the documents D is a conflict for every open
\* transaction that has yet to write one of them
Dirty(h, D) ==
  IF TxnActive(h) THEN [h EXCEPT !.dirty = @ \cup (D \cap ToWrite(h))] ELSE h

RECURSIVE CountOf(_, _)
CountOf(B, S) ==
  IF S = {} THEN 0
  ELSE LET x == CHOOSE y \in S : TRUE IN B[x] + CountOf(B, S \ {x})

\* the bag B with every handler marked by the committed write to D
Dirtied(B, D) ==
  IF D = {} \/ B = EmptyBag THEN B
  ELSE [y \in {Dirty(x, D) : x \in BagToSet(B)} |->
          CountOf(B, {x \in BagToSet(B) : Dirty(x, D) = y})]

Others(h) == handlers (-) SetToBag({h})

\* handler h moves on as h2 (or ends), after a committed write to D
Enter(h2) == handlers' = handlers (+) SetToBag({h2})
Step(h, h2, D) == handlers' = Dirtied(Others(h), D) (+) SetToBag({h2})
Leave(h, D) == handlers' = Dirtied(Others(h), D)

\* a lookup that still finds the document of a deleted user
ExistsOrDeleted(u) == u \in Users

Exists(u) == u \in Users /\ ustate[u] # "deleted"
\* the authentication middleware lets only enabled users through
Authenticated(u) == u \in Users /\ ustate[u] = "enabled"

\* coin operations committed or in progress
CoinOps == Len(ledger) + CountOf(handlers, {h \in InFlight : TxnActive(h)})

\* committed operations plus open transactions stay within the ledger bound
LedgerRoom == CoinOps < (IF order.state = NoOrder THEN MaxCoinOps ELSE MaxLedger)

InitStores ==
  /\ coins = ZeroCoins
  /\ ustate = [u \in Users |-> IF u = NewUser THEN "disabled" ELSE "enabled"]
  /\ order = [state |-> NoOrder, userOrders |-> <<>>, purchaser |-> NoUser,
              location |-> "", cost |-> 0, closeDate |-> 0,
              openDate |-> 0]
  /\ ledger = <<>>
  /\ audits = <<>>
  /\ jobs = {}
  /\ handlers = EmptyBag
  /\ nadmin = 0
  /\ cancelled = FALSE
  /\ mails = 0
  /\ now = 0
  /\ lost = {}
  /\ roles = [u \in Users |-> IF u = FirstAdmin THEN {"admin", "order-creator"} ELSE {}]

\* the database was upgraded and the server listens
Init ==
  /\ InitStores
  /\ upg = [pc |-> "listening", stored |-> targetVersion, found |-> targetVersion,
            ran |-> <<>>]

\* start-up: the schemaVersion collection is empty (NoVersion) or holds the
\* version some earlier release left
InitUpgrade ==
  /\ InitStores
  /\ upg \in {[pc |-> "findOne", stored |-> v, found |-> v, ran |-> <<>>] :
                v \in StoredVersions}

\* ------------------------------------------------------ order creation
\* createOrder: cost: typeConfig ? typeConfig.cost : 1
OrderCost(location) ==
  IF \E ty \in orderTypes : ty.name = location
  THEN (CHOOSE ty \in orderTypes : ty.name = location).cost
  ELSE DefaultCost

\* POST /create: body('type').exists().isIn(orderTypes names) and
\* body('closeDate').exists().toDate().isAfter(<the date the route was registered>);
\* the routes are registered when the clock reads 0
CreateValid(location, closeDate) ==
  /\ \E ty \in orderTypes : ty.name = location
  /\ closeDate > 0

\* a closing time that is not clamped
ClosingTimeUnclamped(closeDate) == closeDate - orderCloseTimeout

\* createOrder: closingTime = closeDate - orderCloseTimeout, or now if that is past
ClosingTime(closeDate) ==
  IF closeDate - orderCloseTimeout < now THEN now ELSE closeDate - orderCloseTimeout

\* createOrder: new Order({...}).save(), then closingTime is worked out
createOrder(location, closeDate) ==
  /\ Room
  /\ order.state = NoOrder
  /\ CoinOps <= MaxLedger
  /\ CreateValid(location, closeDate)
  /\ order' = [state |-> "Open", userOrders |-> <<>>, purchaser |-> NoUser,
               location |-> location, cost |-> OrderCost(location),
               closeDate |-> closeDate, openDate |-> now]
  /\ Enter([NewHandler EXCEPT !.pc = "createSchedule",
                              !.time = ClosingTime(closeDate)])
  /\ UNCHANGED <<coins, ustate, ledger, audits, jobs, nadmin, cancelled, mails, now, lost, roles, upg>>

\* a chain that stops when the mail was not sent
MailUncaught(mailed) == mailed

\* mailer.sendMail(...).catch((err) => logger.error(...)): the promise chain
\* goes on whether the mail was sent or not
MailCaught(mailed) == TRUE

\* what the mailer's outcome leaves in the history
Lost(template, mailed) == IF mailed THEN lost ELSE lost \cup {template}

\* createOrder: sendMail('orderCreated', ...), sent or not, and then
\*   agenda.schedule(closingTime, 'closingOrder', newOrder._id)
createOrderSchedule(h, mailed) ==
  /\ h.pc = "createSchedule"
  /\ lost' = Lost("orderCreated", mailed)
  /\ jobs' = IF MailCaught(mailed)
             THEN jobs \cup {[name |-> "closingOrder", due |-> h.time]}
             ELSE jobs
  /\ Leave(h, {})
  /\ UNCHANGED <<coins, ustate, order, ledger, audits, nadmin, cancelled, mails, now, roles, upg>>

\* ------------------------------------------------------- join and leave
\* a field check that takes every value that was sent
FieldsGivenIfSent(body) == body # Absent

\* joinOrder: if (!fieldValue) throw, for every field of the order's type
FieldsGiven(body) == body \notin {Absent, ""}

\* joinOrder's filter: state in [Open, Closing], userOrders.user nin [me]
JoinMatches(o, u) == o.state \in {"Open", "Closing"} /\ u \notin Range(o.userOrders)

\* joinOrder: one of 'Order is null', 'Failed to find order type' and 'Value
\* was not provided' is thrown; the catch flashes 'Failed to join order'
joinOrderRejected(u, body) ==
  /\ Room
  /\ Authenticated(u)
  /\ \/ ~JoinMatches(order, u)
     \/ ~\E ty \in orderTypes : ty.name = order.location
     \/ ~FieldsGiven(body)
  /\ Enter([NewHandler EXCEPT !.pc = "joinFailed", !.user = u, !.details = body])
  /\ UNCHANGED <<coins, ustate, order, ledger, audits, jobs, nadmin, cancelled, mails, now, lost, roles, upg>>

\* joinOrder: Order.findOne({_id, state in [Open, Closing], userOrders.user nin [me]})
\* then the order type and its required fields are looked up
joinOrderFind(u, body) ==
  /\ Room
  /\ Authenticated(u)
  /\ JoinMatches(order, u)
  /\ \E ty \in orderTypes : ty.name = order.location
  /\ FieldsGiven(body)
  /\ Enter([NewHandler EXCEPT !.pc = "joinSave", !.user = u, !.details = body])
  /\ UNCHANGED <<coins, ustate, order, ledger, audits, jobs, nadmin, cancelled, mails, now, lost, roles, upg>>

\* the update order.save() sends after order.userOrders.push(...): a $push
\* filtered by _id
JoinSaveUpdate(o, u) == [o EXCEPT !.userOrders = Append(@, u)]

\* joinOrder: order.userOrders.push({user, details}); order.save()
joinOrderSave(h) ==
  /\ h.pc = "joinSave"
  /\ ~Locked(OrderDoc)
  /\ order' = JoinSaveUpdate(order, h.user)
  /\ Leave(h, {OrderDoc})
  /\ UNCHANGED <<coins, ustate, ledger, audits, jobs, nadmin, cancelled, mails, now, lost, roles, upg>>

\* leaveOrder: Order.findOneAndUpdate({_id, state in [Open, Closing],
\*   userOrders elemMatch me}, {$pull: {userOrders: {user: me}}})
leaveOrder(u) ==
  /\ Authenticated(u)
  /\ ~Locked(OrderDoc)
  /\ order.state \in {"Open", "Closing"}
  /\ u \in Range(order.userOrders)
  /\ order' = [order EXCEPT !.userOrders = SelectSeqNot(@, u)]
  /\ handlers' = Dirtied(handlers, {OrderDoc})
  /\ UNCHANGED <<coins, ustate, ledger, audits, jobs, nadmin, cancelled, mails, now, lost, roles, upg>>

\* ------------------------------------------------------ close and cancel
\* a close that takes every order it finds to Closed
closeOrderByIdFoundClosed(manual) ==
  [NewHandler EXCEPT !.pc = "closeSave", !.manual = manual, !.newState = "Closed",
                     !.time = now]

\* closeOrderById: the handler after Order.findOne({_id, state in [Open, Closing]})
\* found the order: it holds the state it decided on from the document it read
closeOrderByIdFound(manual) ==
  [NewHandler EXCEPT !.pc = "closeSave",
                     !.manual = manual,
                     !.newState = IF Len(order.userOrders) > 0
                                  THEN "Closed" ELSE "Cancelled",
                     !.time = now]

\* a save that writes the state alone
CloseSaveUpdateStateOnly(o, newState, closeDate) == [o EXCEPT !.state = newState]

\* the update order.save() sends: $set of state and closeDate, filtered by _id
CloseSaveUpdate(o, newState, closeDate) ==
  [o EXCEPT !.state = newState, !.closeDate = closeDate]

\* closeOrderById: order.state = ...; order.closeDate = new Date(); order.save()
closeOrderByIdSave(h) ==
  /\ h.pc = "closeSave"
  /\ ~Locked(OrderDoc)
  /\ order' = CloseSaveUpdate(order, h.newState, h.time)
  /\ IF h.manual
     THEN Step(h, [NewHandler EXCEPT !.pc = "closeCancelJobs"], {OrderDoc})
     ELSE Leave(h, {OrderDoc})
  /\ UNCHANGED <<coins, ustate, ledger, audits, jobs, nadmin, cancelled, mails, now, lost, roles, upg>>

\* closeOrder (route handler): closeOrderById(id) ...
closeOrder ==
  /\ Room
  /\ order.state \in {"Open", "Closing"}
  /\ Enter(closeOrderByIdFound(TRUE))
  /\ UNCHANGED <<coins, ustate, order, ledger, audits, jobs, nadmin, cancelled, mails, now, lost, roles, upg>>

\* closeOrder (route handler): closeOrderById's findOne resolves null: throw
\* 'Order is null', and the catch flashes 'Failed to close order'
closeOrderNotFound ==
  /\ Room
  /\ order.state \notin {"Open", "Closing"}
  /\ Enter([NewHandler EXCEPT !.pc = "closeFailed", !.manual = TRUE])
  /\ UNCHANGED <<coins, ustate, order, ledger, audits, jobs, nadmin, cancelled, mails, now, lost, roles, upg>>

\* closeOrder (route handler): ... then agenda.cancel({closingOrder, closeOrder})
closeOrderCancelJobs(h) ==
  /\ h.pc = "closeCancelJobs"
  /\ jobs' = {}
  /\ Leave(h, {})
  /\ UNCHANGED <<coins, ustate, order, ledger, audits, nadmin, cancelled, mails, now, lost, roles, upg>>

\* cancelOrder's filter: state in [Open, Closing, Closed]
CancelMatches(o) == o.state \in {"Open", "Closing", "Closed"}

\* the document cancelOrder's findOneAndUpdate writes
CancelUpdate(o) ==
  IF CancelMatches(o)
  THEN [o EXCEPT !.state = "Cancelled", !.userOrders = <<>>, !.closeDate = now]
  ELSE o

\* cancelOrder: Order.findOneAndUpdate({_id, state in [Open, Closing, Closed]},
\*   {$set: {state: Cancelled, userOrders: [], closeDate: now}})
cancelOrder ==
  /\ Room
  /\ order.state # NoOrder
  /\ ~Locked(OrderDoc)
  /\ order' = CancelUpdate(order)
  /\ cancelled' = (cancelled \/ CancelMatches(order))
  /\ handlers' = Dirtied(handlers, IF CancelMatches(order) THEN {OrderDoc} ELSE {})
                   (+) SetToBag({[NewHandler EXCEPT !.pc = "cancelJobs"]})
  /\ UNCHANGED <<coins, ustate, ledger, audits, jobs, nadmin, mails, now, lost, roles, upg>>

\* cancelOrder: ... then agenda.cancel({closingOrder, closeOrder})
cancelOrderCancelJobs(h) ==
  /\ h.pc = "cancelJobs"
  /\ jobs' = {}
  /\ Leave(h, {})
  /\ UNCHANGED <<coins, ustate, order, ledger, audits, nadmin, cancelled, mails, now, lost, roles, upg>>

\* what the order administration's request at position pc has flashed, or
\* flashes when its chain ends: closeOrder flashes 'success' once
\* closeOrderById resolved and 'error' in its catch; cancelOrder flashes
\* 'success' after its findOneAndUpdate resolved, whatever it resolved with
OrderFlash(pc) ==
  CASE pc = "closeCancelJobs" -> "success"
    [] pc = "closeFailed" -> "error"
    [] pc = "cancelJobs" -> "success"
    [] OTHER -> "none"

\* ---------------------------------------------------------- agenda jobs
\* agenda runs a job once the clock has reached its nextRunAt
Due(j) == j.due <= now

\* a 'closingOrder' filter that also takes an order that is Closing already
ClosingMatchesClosing(o) == o.state \in {"Open", "Closing"}

\* a 'closingOrder' filter by _id alone
ClosingMatchesAny(o) == TRUE

\* the 'closingOrder' job's filter: state: Open
ClosingMatches(o) == o.state = "Open"

\* 'closingOrder' job: job.remove(); Order.findOneAndUpdate({_id, state: Open},
\*   {$set: {state: Closing}}); a miss throws and skips the mail and the
\*   scheduling; a hit hands the 'orderClosing' mail to the mailer.
\* job.remove() is not awaited and its outcome is not looked at: the job
\* document may outlive the run (removed = FALSE) and be delivered again
closingOrderJob(j, removed) ==
  /\ Room
  /\ j \in jobs
  /\ j.name = "closingOrder"
  /\ ~Locked(OrderDoc)
  /\ jobs' = IF removed THEN jobs \ {j} ELSE jobs
  /\ IF ClosingMatches(order)
     THEN /\ order' = [order EXCEPT !.state = "Closing"]
          /\ mails' = mails + 1
          /\ handlers' = Dirtied(handlers, {OrderDoc})
                           (+) SetToBag({[NewHandler EXCEPT !.pc = "closingSchedule"]})
     ELSE UNCHANGED <<order, mails, handlers>>
  /\ UNCHANGED <<coins, ustate, ledger, audits, nadmin, cancelled, now, lost, roles, upg>>

\* 'closingOrder' job: agenda.schedule(moment().add(orderCloseTimeout), 'closeOrder', orderId)
closingOrderSchedule(h, mailed) ==
  /\ h.pc = "closingSchedule"
  /\ lost' = Lost("orderClosing", mailed)
  /\ jobs' = IF MailCaught(mailed)
             THEN jobs \cup {[name |-> "closeOrder", due |-> now + orderCloseTimeout]}
             ELSE jobs
  /\ Leave(h, {})
  /\ UNCHANGED <<coins, ustate, order, ledger, audits, nadmin, cancelled, mails, now, roles, upg>>

\* 'closeOrder' job: job.remove(); closeOrderById(job.attrs.data); the
\* job.remove() is not awaited here either
closeOrderJob(j, removed) ==
  /\ Room
  /\ j \in jobs
  /\ j.name = "closeOrder"
  /\ jobs' = IF removed THEN jobs \ {j} ELSE jobs
  /\ IF order.state \in {"Open", "Closing"}
     THEN Enter(closeOrderByIdFound(FALSE))
     ELSE UNCHANGED handlers
  /\ UNCHANGED <<coins, ustate, order, ledger, audits, nadmin, cancelled, mails, now, lost, roles, upg>>

\* ------------------------------------------------------- transactions
\* coins of user u as the open transaction of h reads them (its own writes included)
TxnCoins(h, u) == IF u \in h.wset THEN h.wval[u] ELSE coins[u]

\* an update that overwrites the field with the operand
IncAsSet(v, d) == d

\* {$inc: {coins: d}} applied to a document whose coins are v
Inc(v, d) == v + d

\* a write of coins v to user u made through the session of h
SessionWrite(h, u, v) == [h EXCEPT !.wset = @ \cup {u}, !.wval[u] = v]

\* the users collection after commitTransaction of h
CommitCoins(h) == [u \in Users |-> IF u \in h.wset THEN h.wval[u] ELSE coins[u]]

\* session.abortTransaction() in the handlers' catch: every buffered write is dropped
abortTransaction(h) ==
  /\ Leave(h, {})
  /\ UNCHANGED <<coins, ustate, order, ledger, audits, jobs, nadmin, cancelled, mails, now, lost, roles, upg>>

\* any storage operation of an open transaction may fail (connectivity, server
\* error); the promise chain then lands in the catch
txnFail(h) ==
  /\ TxnActive(h)
  /\ abortTransaction(h)

\* a commit that replaces the documents of the two collections
CommitReplacing(h, entry, auditLog) ==
  /\ coins' = CommitCoins(h)
  /\ ledger' = <<entry>>
  /\ audits' = <<auditLog>>
  /\ Leave(h, WriteSet(h))

\* everything a commit publishes, for the three transactional handlers
Commit(h, entry, auditLog) ==
  /\ coins' = CommitCoins(h)
  /\ ledger' = Append(ledger, entry)
  /\ audits' = Append(audits, auditLog)
  /\ Leave(h, WriteSet(h))

\* a commit after which the chain goes on to the catch as h2
CommitThenCatch(h, entry, auditLog, h2) ==
  /\ coins' = CommitCoins(h)
  /\ ledger' = Append(ledger, entry)
  /\ audits' = Append(audits, auditLog)
  /\ Step(h, h2, WriteSet(h))

\* the flash messages a settlement (log...), a transfer (xfer...) or a forced
\* adjustment (set...) has posted when its chain ends from position pc:
\*   logOrder flashes 'success' after commitTransaction and 'error' in its catch;
\*   transferCoins flashes 'success' after commitTransaction, and its catch
\*     calls req.flash('Failed to transfer coins'), which posts nothing;
\*   setCoins flashes 'success' once findByIdAndUpdate resolved with the
\*     user, before audit, Transaction.create and commitTransaction, and
\*     'error' in its catch
Reports(pc, outcome) ==
  CASE pc \in {"logPurchaser", "logParticipants", "logOrderSave", "logCommit"} ->
         CASE outcome = "commit" -> {"success"}
           [] outcome = "commitThenCatch" -> {"success", "error"}
           [] OTHER -> {"error"}
    [] pc \in {"xferTarget", "xferSource", "xferCommit"} ->
         IF outcome = "commit" THEN {"success"} ELSE {}
    [] pc = "setCommit" ->
         IF outcome = "commit" THEN {"success"} ELSE {"success", "error"}
    [] OTHER -> {}

\* setCoins: sendAdminUserEmail('userCoinsSet', ...) follows the 'success'
\* flash, before audit, Transaction.create and commitTransaction
Notifies(pc) == IF pc = "setCommit" THEN {"userCoinsSet"} ELSE {}

\* ----------------------------------------------------------- settlement
\* a credit that counts the purchaser among the payers
PurchaserCreditPerHead(cost, userOrders) == cost * Len(userOrders)

\* logOrder: the $inc applied to the purchaser
PurchaserCredit(cost, userOrders) == cost * (Len(userOrders) - 1)

\* a settlement filter that also takes an order settled already
LogMatchesArchived(o) == o.state \in {"Closed", "Archived"}

\* logOrder's filter: state: Closed
LogMatches(o) == o.state = "Closed"

\* logOrder: startTransaction; Order.findOne({_id, state: Closed})
\*   .session(session).populate('userOrders.user')
logOrderFind(p) ==
  /\ Room
  /\ LedgerRoom
  /\ LogMatches(order)
  /\ Enter([NewHandler EXCEPT !.pc = "logPurchaser", !.other = p,
                              !.userOrders = order.userOrders,
                              !.cost = order.cost,
                              !.popCoins = coins])
  /\ UNCHANGED <<coins, ustate, order, ledger, audits, jobs, nadmin, cancelled, mails, now, lost, roles, upg>>

\* logOrder: the findOne resolves null: throw, and the catch flashes the
\* error and aborts the empty transaction; the response is still to be sent
logOrderNotFound(p) ==
  /\ Room
  /\ ~LogMatches(order)
  /\ Enter([NewHandler EXCEPT !.pc = "logFailed", !.other = p])
  /\ UNCHANGED <<coins, ustate, order, ledger, audits, jobs, nadmin, cancelled, mails, now, lost, roles, upg>>

\* logOrder: User.findByIdAndUpdate(purchaser, {$inc: {coins: cost * (n - 1)}})
\*   .session(session); the document returned is the one before the update
logOrderPurchaser(h) ==
  /\ h.pc = "logPurchaser"
  /\ IF ~Exists(h.other) \/ Conflicts(h, h.other)
     THEN abortTransaction(h)
     ELSE /\ Step(h, SessionWrite([h EXCEPT !.pc = "logParticipants",
                                            !.prevA = TxnCoins(h, h.other)],
                                  h.other,
                                  Inc(TxnCoins(h, h.other),
                                      PurchaserCredit(h.cost, h.userOrders))),
                  {})
          /\ UNCHANGED <<coins, ustate, order, ledger, audits, jobs, nadmin, cancelled, mails, now, lost, roles, upg>>

\* logOrder: order.userOrders.filter(not the purchaser)
Debited(h) == SelectSeqNot(h.userOrders, h.other)

\* logOrder: userOrder.user.coins -= order.cost; userOrder.user.save(), for
\* every debited participant, as buffered in the session
ParticipantWrites(h) ==
  [h EXCEPT !.wset = @ \cup Range(Debited(h)),
            !.wval = [u \in Users |->
                        IF u \in Range(Debited(h))
                        THEN h.popCoins[u] - h.cost
                        ELSE @[u]]]

\* the users collection as others would see it were the participants' save()
\* to run outside the session
ParticipantSaveUnsessioned(h) ==
  [u \in Users |-> IF u \in Range(Debited(h)) THEN h.popCoins[u] - h.cost ELSE coins[u]]

\* the users collection as others see it after the participants' save(): the
\* populated documents carry the session of the query that loaded them, so
\* nothing is visible before the commit
ParticipantSaveVisible(h) == coins

\* logOrder: Promise.all(... userOrder.user.coins -= order.cost; userOrder.user.save())
\* A participant deleted since (populate gives null), a user listed twice (the
\* one populated document saved twice in parallel) or a write conflict rejects.
logOrderParticipants(h) ==
  /\ h.pc = "logParticipants"
  /\ IF \/ \E u \in Range(Debited(h)) : ~Exists(u) \/ Conflicts(h, u)
        \/ HasDuplicates(Debited(h))
     THEN abortTransaction(h)
     ELSE /\ Step(h, ParticipantWrites([h EXCEPT !.pc = "logOrderSave"]), {})
          /\ coins' = ParticipantSaveVisible(h)
          /\ UNCHANGED <<ustate, order, ledger, audits, jobs, nadmin, cancelled, mails, now, lost, roles, upg>>

\* logOrder: order.purchaser = purchaser; order.state = Archived; order.save()
logOrderSave(h) ==
  /\ h.pc = "logOrderSave"
  /\ IF Conflicts(h, OrderDoc)
     THEN abortTransaction(h)
     ELSE /\ Step(h, [h EXCEPT !.pc = "logCommit", !.worder = TRUE], {})
          /\ UNCHANGED <<coins, ustate, order, ledger, audits, jobs, nadmin, cancelled, mails, now, lost, roles, upg>>

RECURSIVE DebitEntries(_, _, _)
\* logOrder: one ledger entry per debited participant, from the saved documents
DebitEntries(s, popCoins, cost) ==
  IF s = <<>> THEN <<>>
  ELSE <<[user |-> Head(s),
          previousValue |-> (popCoins[Head(s)] - cost) + cost,
          newValue |-> popCoins[Head(s)] - cost]>>
       \o DebitEntries(Tail(s), popCoins, cost)

\* logOrder: the purchaser's ledger entry, from the document findByIdAndUpdate returned
PurchaserEntry(h) ==
  [user |-> h.other,
   previousValue |-> h.prevA,
   newValue |-> h.prevA + h.cost * (Len(h.userOrders) - 1)]

\* logOrder: the Transaction document
LogOrderEntry(h) ==
  [description |-> "Logged order",
   entries |-> <<PurchaserEntry(h)>> \o DebitEntries(Debited(h), h.popCoins, h.cost)]

\* logOrder: audit(session, ...); Transaction.create([...], {session});
\*   session.commitTransaction(); and after it sendMail('loggedOrder', ...),
\*   sent or not
\*   sent or not; when Order.findById before the mail rejects, the chain
\*   lands in the catch after the commit
logOrderCommit(h, mailed, found) ==
  /\ h.pc = "logCommit"
  /\ IF found
     THEN Commit(h, LogOrderEntry(h), "Logged order")
     ELSE CommitThenCatch(h, LogOrderEntry(h), "Logged order",
                          [NewHandler EXCEPT !.pc = "logCommitFailed", !.other = h.other])
  /\ order' = [order EXCEPT !.state = "Archived", !.purchaser = h.other]
  /\ lost' = IF found THEN Lost("loggedOrder", mailed) ELSE lost
  /\ UNCHANGED <<ustate, jobs, nadmin, cancelled, mails, now, roles, upg>>

\* ------------------------------------------------------- coin transfer
\* a transfer route without the balance check
TransferAllowedAnyBalance(a, balance) == a >= 1

\* POST /transfer: body('coins').isInt({min: 1}) in validateRequest, then
\* transferCoins' check against req.user (loaded by deserializeUser when the
\* request came in): coins > req.user.coins rejects
TransferAllowed(a, balance) == a >= 1 /\ ~(a > balance)

\* transferCoins, past the checks: mongoose.startSession()
transferCoins(src, tgt, a) ==
  /\ Room
  /\ Authenticated(src)
  /\ TransferAllowed(a, coins[src])
  /\ Enter([NewHandler EXCEPT !.pc = "xferTarget", !.user = src, !.other = tgt,
                              !.amount = a])
  /\ UNCHANGED <<coins, ustate, order, ledger, audits, jobs, nadmin, cancelled, mails, now, lost, roles, upg>>

\* POST /transfer stopped by validateRequest or by transferCoins' balance
\* check: req.flash('error', ...), and the response is still to be sent
transferCoinsRejected(src, tgt, a) ==
  /\ Room
  /\ Authenticated(src)
  /\ ~TransferAllowed(a, coins[src])
  /\ Enter([NewHandler EXCEPT !.pc = "xferRejected", !.user = src, !.other = tgt,
                              !.amount = a])
  /\ UNCHANGED <<coins, ustate, order, ledger, audits, jobs, nadmin, cancelled, mails, now, lost, roles, upg>>

\* the redirect that ends a rejected or failed request
redirectToLast(h) ==
  /\ h.pc \in {"xferRejected", "logFailed", "setFailed", "closeFailed", "joinFailed",
             "logCommitFailed"}
  /\ Leave(h, {})
  /\ UNCHANGED <<coins, ustate, order, ledger, audits, jobs, nadmin, cancelled, mails, now, lost, roles, upg>>

\* transferCoins: startTransaction; User.findByIdAndUpdate(target, {$inc: {coins}})
transferCoinsTarget(h) ==
  /\ h.pc = "xferTarget"
  /\ LedgerRoom
  /\ IF ~Exists(h.other) \/ LockedByOther(h.other, h)
     THEN abortTransaction(h)
     ELSE /\ Step(h, SessionWrite([h EXCEPT !.pc = "xferSource",
                                            !.prevA = coins[h.other]],
                                  h.other, Inc(coins[h.other], h.amount)),
                  {})
          /\ UNCHANGED <<coins, ustate, order, ledger, audits, jobs, nadmin, cancelled, mails, now, lost, roles, upg>>

\* transferCoins: User.findByIdAndUpdate(req.user._id, {$inc: {coins: -1 * coins}})
transferCoinsSource(h) ==
  /\ h.pc = "xferSource"
  /\ IF ~Exists(h.user) \/ Conflicts(h, h.user)
     THEN abortTransaction(h)
     ELSE /\ Step(h, SessionWrite([h EXCEPT !.pc = "xferCommit",
                                            !.prevB = TxnCoins(h, h.user)],
                                  h.user, Inc(TxnCoins(h, h.user), -1 * h.amount)),
                  {})
          /\ UNCHANGED <<coins, ustate, order, ledger, audits, jobs, nadmin, cancelled, mails, now, lost, roles, upg>>

\* a Transaction document built from the documents as they are after the update
TransferEntryFromUpdated(h) ==
  [description |-> "Coin transfer",
   entries |-> <<[user |-> h.other,
                  previousValue |-> h.prevA + h.amount,
                  newValue |-> h.prevA + h.amount + h.amount],
                 [user |-> h.user,
                  previousValue |-> h.prevB - h.amount,
                  newValue |-> h.prevB - h.amount - h.amount]>>]

\* transferCoins: the Transaction document
TransferEntry(h) ==
  [description |-> "Coin transfer",
   entries |-> <<[user |-> h.other,
                  previousValue |-> h.prevA,
                  newValue |-> h.prevA + h.amount],
                 [user |-> h.user,
                  previousValue |-> h.prevB,
                  newValue |-> h.prevB - h.amount]>>]

\* transferCoins: audit(session, ...); Transaction.create(...); commitTransaction()
transferCoinsCommit(h) ==
  /\ h.pc = "xferCommit"
  /\ Commit(h, TransferEntry(h), "Coin transfer")
  /\ UNCHANGED <<ustate, order, jobs, nadmin, cancelled, mails, now, lost, roles, upg>>

\* --------------------------------------------------- forced adjustment
\* setCoins: startTransaction; User.findByIdAndUpdate(id, {$set: {coins}})
setCoins(u, v) ==
  /\ Room
  /\ LedgerRoom
  /\ Exists(u)
  /\ ~Locked(u)
  /\ Enter(SessionWrite([NewHandler EXCEPT !.pc = "setCommit", !.user = u,
                                           !.amount = v, !.prevA = coins[u]],
                        u, v))
  /\ UNCHANGED <<coins, ustate, order, ledger, audits, jobs, nadmin, cancelled, mails, now, lost, roles, upg>>

\* setCoins: findByIdAndUpdate resolves null: throw 'User not found', and the
\* catch flashes the error and aborts the empty transaction
setCoinsNotFound(u, v) ==
  /\ Room
  /\ ~Exists(u)
  /\ Enter([NewHandler EXCEPT !.pc = "setFailed", !.user = u, !.amount = v])
  /\ UNCHANGED <<coins, ustate, order, ledger, audits, jobs, nadmin, cancelled, mails, now, lost, roles, upg>>

\* a Transaction document written from the user document after the update
SetCoinsEntryFromUpdated(h) ==
  [description |-> "Forced coin update",
   entries |-> <<[user |-> h.user,
                  previousValue |-> h.amount,
                  newValue |-> h.amount]>>]

\* setCoins: the Transaction document
SetCoinsEntry(h) ==
  [description |-> "Forced coin update",
   entries |-> <<[user |-> h.user,
                  previousValue |-> h.prevA,
                  newValue |-> h.amount]>>]

\* setCoins: audit(session, ...); Transaction.create(...); commitTransaction()
setCoinsCommit(h) ==
  /\ h.pc = "setCommit"
  /\ Commit(h, SetCoinsEntry(h), "Forced coin update")
  /\ UNCHANGED <<ustate, order, jobs, nadmin, cancelled, mails, now, lost, roles, upg>>

\* --------------------------------------------------- user administration
\* enableUser: User.findByIdAndUpdate(id, {$set: {enabled: true, activated: true}})
enableUser(u) ==
  /\ nadmin < MaxAdmin
  /\ ustate[u] = "disabled"
  /\ ~Locked(u)
  /\ ustate' = [ustate EXCEPT ![u] = "enabled"]
  /\ nadmin' = nadmin + 1
  /\ handlers' = Dirtied(handlers, {u})
  /\ UNCHANGED <<coins, order, ledger, audits, jobs, cancelled, mails, now, lost, roles, upg>>

\* disableUser: User.findByIdAndUpdate(id, {$set: {enabled: false}})
disableUser(u) ==
  /\ nadmin < MaxAdmin
  /\ ustate[u] = "enabled"
  /\ ~Locked(u)
  /\ ustate' = [ustate EXCEPT ![u] = "disabled"]
  /\ nadmin' = nadmin + 1
  /\ handlers' = Dirtied(handlers, {u})
  /\ UNCHANGED <<coins, order, ledger, audits, jobs, cancelled, mails, now, lost, roles, upg>>

\* the coins held in the users collection after deleteUser's findOneAndRemove:
\* the document, and with it the balance, is gone
DeleteUpdate(c, u) == [c EXCEPT ![u] = 0]

\* deleteUser: User.findOneAndRemove({_id, enabled: false})
deleteUser(u) ==
  /\ nadmin < MaxAdmin
  /\ ustate[u] = "disabled"
  /\ ~Locked(u)
  /\ ustate' = [ustate EXCEPT ![u] = "deleted"]
  /\ coins' = DeleteUpdate(coins, u)
  /\ nadmin' = nadmin + 1
  /\ handlers' = Dirtied(handlers, {u})
  /\ UNCHANGED <<order, ledger, audits, jobs, cancelled, mails, now, lost, roles, upg>>

\* ------------------------------------------------------ access control
\* a role check that lets every user through
HasRoleAny(u, role) == TRUE

\* req.user.roles.includes(role), of the routers under /orders/admin and
\* /users/admin
HasRole(u, role) == role \in roles[u]

\* the middleware a request meets before its handler: authenticated and
\* enabled, and for the administration routers the role
Passes(u, role) == Authenticated(u) /\ (role = NoRole \/ HasRole(u, role))

\* a request stopped by the middleware: redirect('/') or sendStatus(401)
deny(u, role) ==
  /\ Room
  /\ ~Passes(u, role)
  /\ Enter([NewHandler EXCEPT !.pc = "denied", !.user = u])
  /\ UNCHANGED <<coins, ustate, order, ledger, audits, jobs, nadmin, cancelled, mails, now, lost, roles, upg>>

\* the response to a request that was stopped
respondDenied(h) ==
  /\ h.pc = "denied"
  /\ Leave(h, {})
  /\ UNCHANGED <<coins, ustate, order, ledger, audits, jobs, nadmin, cancelled, mails, now, lost, roles, upg>>

\* setRoles: User.findByIdAndUpdate(id, {$set: {roles: newRoles}})
setRoles(u, newRoles) ==
  /\ Exists(u)
  /\ ~Locked(u)
  /\ roles' = [roles EXCEPT ![u] = newRoles]
  /\ handlers' = Dirtied(handlers, {u})
  /\ UNCHANGED <<coins, ustate, order, ledger, audits, jobs, nadmin, cancelled, mails, now, lost, upg>>

\* the requests as their requester r sends them, through the middleware
postCreate(r, location, closeDate) == Passes(r, "order-creator") /\ createOrder(location, closeDate)
getClose(r) == Passes(r, "order-creator") /\ closeOrder
getCancel(r) == Passes(r, "order-creator") /\ cancelOrder
postLog(r, p) == Passes(r, "order-creator") /\ logOrderFind(p)
postSetCoins(r, u, v) == Passes(r, "admin") /\ setCoins(u, v)
getEnable(r, u) == Passes(r, "admin") /\ enableUser(u)
getDisable(r, u) == Passes(r, "admin") /\ disableUser(u)
postSetRoles(r, u, newRoles) == Passes(r, "admin") /\ setRoles(u, newRoles)
postJoin(r) == Passes(r, NoRole) /\ joinOrderFind(r, Given)
getLeave(r) == Passes(r, NoRole) /\ leaveOrder(r)
postTransfer(r, tgt, a) == Passes(r, NoRole) /\ transferCoins(r, tgt, a)

\* ------------------------------------------------------------ start-up
\* an upgrade that takes every version for the target
AtTargetAny(v) == TRUE

\* upgrade: version.version === upgradeConfig.targetVersion
AtTarget(v) == v = targetVersion

\* upgrade: upgradeConfig.steps.find((step) => step.from === version.version)
StepsFrom(v) == {st \in steps : st.from = v}

\* upgradeDatabase: Version.findOne({}); without a document,
\*   new Version({version: 1}).save()
upgradeDatabase ==
  /\ upg.pc = "findOne"
  /\ upg' = [upg EXCEPT !.pc = "upgrade",
                        !.stored = IF @ = NoVersion THEN 1 ELSE @]
  /\ UNCHANGED <<coins, ustate, order, ledger, audits, jobs, handlers, nadmin,
                 cancelled, mails, now, lost, roles>>

\* upgrade: at the target version it returns, upgradeDatabase resolves and
\* app.listen(config.listenPort) runs; without a step from the version it
\* throws; otherwise nextStep.upgradeFunc() runs, and resolves or rejects
upgrade(funcOk) ==
  /\ upg.pc = "upgrade"
  /\ upg' = IF AtTarget(upg.stored)
            THEN [upg EXCEPT !.pc = "listening"]
            ELSE IF StepsFrom(upg.stored) = {}
            THEN [upg EXCEPT !.pc = "noStep"]
            ELSE IF funcOk
            THEN [upg EXCEPT !.pc = "save",
                             !.ran = Append(@, CHOOSE st \in StepsFrom(upg.stored) : TRUE)]
            ELSE [upg EXCEPT !.pc = "funcFailed"]
  /\ UNCHANGED <<coins, ustate, order, ledger, audits, jobs, handlers, nadmin,
                 cancelled, mails, now, lost, roles>>

\* upgrade: version.version = nextStep.to; version.save(); then upgrade again
upgradeSave ==
  /\ upg.pc = "save"
  /\ upg' = [upg EXCEPT !.pc = "upgrade", !.stored = upg.ran[Len(upg.ran)].to]
  /\ UNCHANGED <<coins, ustate, order, ledger, audits, jobs, handlers, nadmin,
                 cancelled, mails, now, lost, roles>>

\* app.listen has run: the server takes requests
Serving == upg.pc = "listening"

\* ------------------------------------------------------- specification
\* Spec explores the interleavings of requests and jobs with the clock
\* standing still and agenda's due times not consulted: the clock may advance
\* by any amount between two steps, so a pending job can run at any point of
\* an interleaving. Each run of a job removes its document. What is read
\* from the clock, and a job document that outlives its run, are in SpecTimed.
Next ==
  \/ \E l \in LocationInputs, d \in CloseDateInputs : createOrder(l, d)
  \/ \E h \in InFlight : createOrderSchedule(h, TRUE)
  \/ \E u \in Users : joinOrderFind(u, Given)
  \/ \E h \in InFlight : joinOrderSave(h)
  \/ \E u \in Users : leaveOrder(u)
  \/ closeOrder
  \/ \E h \in InFlight : closeOrderByIdSave(h)
  \/ \E h \in InFlight : closeOrderCancelJobs(h)
  \/ cancelOrder
  \/ \E h \in InFlight : cancelOrderCancelJobs(h)
  \/ \E j \in jobs : closingOrderJob(j, TRUE)
  \/ \E h \in InFlight : closingOrderSchedule(h, TRUE)
  \/ \E j \in jobs : closeOrderJob(j, TRUE)
  \/ \E p \in PurchaserInputs : logOrderFind(p)
  \/ \E h \in InFlight : logOrderPurchaser(h)
  \/ \E h \in InFlight : logOrderParticipants(h)
  \/ \E h \in InFlight : logOrderSave(h)
  \/ \E h \in InFlight : logOrderCommit(h, TRUE, TRUE)
  \/ \E src \in Users, tgt \in Users, a \in TransferInputs : transferCoins(src, tgt, a)
  \/ \E h \in InFlight : transferCoinsTarget(h)
  \/ \E h \in InFlight : transferCoinsSource(h)
  \/ \E h \in InFlight : transferCoinsCommit(h)
  \/ \E u \in Users, v \in SetCoinsInputs : setCoins(u, v)
  \/ \E h \in InFlight : setCoinsCommit(h)
  \/ \E h \in InFlight : txnFail(h)
  \/ \E u \in Users : enableUser(u)
  \/ \E u \in Users : disableUser(u)
  \/ \E u \in Users : deleteUser(u)

Spec == Init /\ [][Next]_vars

\* the requests and jobs handled one at a time: one starts only when no
\* other is in flight.  The requests that are turned away before they reach
\* the database are handled here too.
Idle == handlers = EmptyBag

NextSeq ==
  \/ Idle /\ (\E l \in LocationInputs, d \in CloseDateInputs : createOrder(l, d))
  \/ \E h \in InFlight : createOrderSchedule(h, TRUE)
  \/ Idle /\ (\E u \in Users, body \in BodyInputs : joinOrderFind(u, body))
  \/ Idle /\ (\E u \in Users, body \in BodyInputs : joinOrderRejected(u, body))
  \/ \E h \in InFlight : joinOrderSave(h)
  \/ Idle /\ (\E u \in Users : leaveOrder(u))
  \/ Idle /\ closeOrder
  \/ \E h \in InFlight : closeOrderByIdSave(h)
  \/ \E h \in InFlight : closeOrderCancelJobs(h)
  \/ Idle /\ cancelOrder
  \/ \E h \in InFlight : cancelOrderCancelJobs(h)
  \/ Idle /\ (\E j \in jobs, removed \in BOOLEAN : closingOrderJob(j, removed))
  \/ \E h \in InFlight : closingOrderSchedule(h, TRUE)
  \/ Idle /\ (\E j \in jobs, removed \in BOOLEAN : closeOrderJob(j, removed))
  \/ Idle /\ (\E p \in PurchaserInputs : logOrderFind(p))
  \/ \E h \in InFlight : logOrderPurchaser(h)
  \/ \E h \in InFlight : logOrderParticipants(h)
  \/ \E h \in InFlight : logOrderSave(h)
  \/ \E h \in InFlight, found \in BOOLEAN : logOrderCommit(h, TRUE, found)
  \/ Idle /\ (\E src \in Users, tgt \in Users, a \in TransferInputs : transferCoins(src, tgt, a))
  \/ \E h \in InFlight : transferCoinsTarget(h)
  \/ \E h \in InFlight : transferCoinsSource(h)
  \/ \E h \in InFlight : transferCoinsCommit(h)
  \/ Idle /\ (\E u \in Users, v \in SetCoinsInputs : setCoins(u, v))
  \/ \E h \in InFlight : setCoinsCommit(h)
  \/ \E h \in InFlight : txnFail(h)
  \/ Idle /\ (\E u \in Users : enableUser(u))
  \/ Idle /\ (\E u \in Users : disableUser(u))
  \/ Idle /\ (\E u \in Users : deleteUser(u))
  \/ Idle /\ (\E src \in Users, tgt \in Users, a \in TransferInputs :
                 transferCoinsRejected(src, tgt, a))
  \/ Idle /\ (\E p \in PurchaserInputs : logOrderNotFound(p))
  \/ Idle /\ closeOrderNotFound
  \/ Idle /\ (\E u \in PurchaserInputs, v \in SetCoinsInputs : setCoinsNotFound(u, v))
  \/ \E h \in InFlight : redirectToLast(h)

SpecSeq == Init /\ [][NextSeq]_vars

\* start-up, and the order requests the server takes once it listens
NextUpgrade ==
  \/ upgradeDatabase
  \/ \E funcOk \in BOOLEAN : upgrade(funcOk)
  \/ upgradeSave
  \/ Serving /\ (\E l \in LocationInputs, d \in CloseDateInputs : createOrder(l, d))
  \/ \E h \in InFlight : createOrderSchedule(h, TRUE)
  \/ Serving /\ (\E u \in Users : joinOrderFind(u, Given))
  \/ \E h \in InFlight : joinOrderSave(h)
  \/ Serving /\ (\E u \in Users : leaveOrder(u))
  \/ Serving /\ cancelOrder
  \/ \E h \in InFlight : cancelOrderCancelJobs(h)

\* the promise chain of upgradeDatabase runs on
FairUpgrade ==
  /\ WF_vars(upgradeDatabase)
  /\ WF_vars(\E funcOk \in BOOLEAN : upgrade(funcOk))
  /\ WF_vars(upgradeSave)

SpecUpgrade == InitUpgrade /\ [][NextUpgrade]_vars /\ FairUpgrade

\* every request with its requester, one request at a time: users with and
\* without roles, enabled and disabled, and somebody with no session
NextAuth ==
  \/ Idle /\ (\E r \in Requesters, role \in RouteRoles : deny(r, role))
  \/ \E h \in InFlight : respondDenied(h)
  \/ Idle /\ (\E r \in Requesters, l \in LocationInputs, d \in CloseDateInputs :
                 postCreate(r, l, d))
  \/ \E h \in InFlight : createOrderSchedule(h, TRUE)
  \/ Idle /\ (\E r \in Requesters : postJoin(r))
  \/ \E h \in InFlight : joinOrderSave(h)
  \/ Idle /\ (\E r \in Requesters : getLeave(r))
  \/ Idle /\ (\E r \in Requesters : getClose(r))
  \/ \E h \in InFlight : closeOrderByIdSave(h)
  \/ \E h \in InFlight : closeOrderCancelJobs(h)
  \/ Idle /\ (\E r \in Requesters : getCancel(r))
  \/ \E h \in InFlight : cancelOrderCancelJobs(h)
  \/ Idle /\ (\E r \in Requesters, p \in PurchaserInputs : postLog(r, p))
  \/ \E h \in InFlight : logOrderPurchaser(h)
  \/ \E h \in InFlight : logOrderParticipants(h)
  \/ \E h \in InFlight : logOrderSave(h)
  \/ \E h \in InFlight : logOrderCommit(h, TRUE, TRUE)
  \/ Idle /\ (\E r \in Requesters, tgt \in Users, a \in TransferInputs :
                 postTransfer(r, tgt, a))
  \/ \E h \in InFlight : transferCoinsTarget(h)
  \/ \E h \in InFlight : transferCoinsSource(h)
  \/ \E h \in InFlight : transferCoinsCommit(h)
  \/ Idle /\ (\E r \in Requesters, u \in Users, v \in SetCoinsInputs :
                 postSetCoins(r, u, v))
  \/ \E h \in InFlight : setCoinsCommit(h)
  \/ Idle /\ (\E r \in Requesters, u \in Users : getEnable(r, u))
  \/ Idle /\ (\E r \in Requesters, u \in Users : getDisable(r, u))
  \/ Idle /\ (\E r \in Requesters, u \in Users, newRoles \in RoleInputs :
                 postSetRoles(r, u, newRoles))

SpecAuth == Init /\ [][NextAuth]_vars

\* the order from creation to settlement with a mailer that may fail to
\* send any of the notifications; joins, the two jobs and the settlement
\* interleave
NextMail ==
  \/ \E l \in LocationInputs, d \in CloseDateInputs : createOrder(l, d)
  \/ \E h \in InFlight, mailed \in BOOLEAN : createOrderSchedule(h, mailed)
  \/ \E u \in Users : joinOrderFind(u, Given)
  \/ \E h \in InFlight : joinOrderSave(h)
  \/ \E j \in jobs : closingOrderJob(j, TRUE)
  \/ \E h \in InFlight, mailed \in BOOLEAN : closingOrderSchedule(h, mailed)
  \/ \E j \in jobs : closeOrderJob(j, TRUE)
  \/ \E h \in InFlight : closeOrderByIdSave(h)
  \/ \E p \in PurchaserInputs : logOrderFind(p)
  \/ \E h \in InFlight : logOrderPurchaser(h)
  \/ \E h \in InFlight : logOrderParticipants(h)
  \/ \E h \in InFlight : logOrderSave(h)
  \/ \E h \in InFlight, mailed \in BOOLEAN : logOrderCommit(h, mailed, TRUE)

SpecMail == Init /\ [][NextMail]_vars

\* time passes; the clock stops at MaxClock unless a job still waits for its time
tick ==
  /\ now < MaxClock \/ \E j \in jobs : ~Due(j)
  /\ now' = now + 1
  /\ UNCHANGED <<coins, ustate, order, ledger, audits, jobs, handlers, nadmin,
                 cancelled, mails, lost, roles, upg>>

\* the life of the order under a running clock: requests at any time, agenda
\* jobs once they are due, a job document that may be delivered again
NextTimed ==
  \/ tick
  \/ \E l \in LocationInputs, d \in 0..MaxClock : createOrder(l, d)
  \/ \E h \in InFlight : createOrderSchedule(h, TRUE)
  \/ \E u \in Users : joinOrderFind(u, Given)
  \/ \E h \in InFlight : joinOrderSave(h)
  \/ \E u \in Users : leaveOrder(u)
  \/ closeOrder
  \/ \E h \in InFlight : closeOrderByIdSave(h)
  \/ \E h \in InFlight : closeOrderCancelJobs(h)
  \/ cancelOrder
  \/ \E h \in InFlight : cancelOrderCancelJobs(h)
  \/ \E j \in jobs, removed \in BOOLEAN : Due(j) /\ closingOrderJob(j, removed)
  \/ \E h \in InFlight : closingOrderSchedule(h, TRUE)
  \/ \E j \in jobs, removed \in BOOLEAN : Due(j) /\ closeOrderJob(j, removed)

SpecTimed == Init /\ [][NextTimed]_vars

\* the order left to the scheduler: no POST /close, no POST /cancel, every
\* storage operation succeeds (a job's document is removed by its run)
NextAuto ==
  \/ tick
  \/ \E l \in LocationInputs, d \in 0..MaxClock : createOrder(l, d)
  \/ \E h \in InFlight : createOrderSchedule(h, TRUE)
  \/ \E u \in Users : joinOrderFind(u, Given)
  \/ \E h \in InFlight : joinOrderSave(h)
  \/ \E u \in Users : leaveOrder(u)
  \/ \E j \in jobs : Due(j) /\ closingOrderJob(j, TRUE)
  \/ \E h \in InFlight : closingOrderSchedule(h, TRUE)
  \/ \E j \in jobs : Due(j) /\ closeOrderJob(j, TRUE)
  \/ \E h \in InFlight : closeOrderByIdSave(h)

\* the clock advances, a promise chain that has started runs on, and agenda
\* (polling every 60 s, whatever the requests are doing) runs a job that is due
FairAuto ==
  /\ WF_vars(tick)
  /\ WF_vars(\E h \in InFlight : createOrderSchedule(h, TRUE))
  /\ WF_vars(\E h \in InFlight : joinOrderSave(h))
  /\ SF_vars(\E j \in jobs : Due(j) /\ closingOrderJob(j, TRUE))
  /\ WF_vars(\E h \in InFlight : closingOrderSchedule(h, TRUE))
  /\ SF_vars(\E j \in jobs : Due(j) /\ closeOrderJob(j, TRUE))
  /\ WF_vars(\E h \in InFlight : closeOrderByIdSave(h))

SpecAuto == Init /\ [][NextAuto]_vars /\ FairAuto

\* the process stops and starts again: the promise chains in flight are
\* gone, the collections (the agenda collection among them) are as they were
restart ==
  /\ handlers # EmptyBag
  /\ handlers' = EmptyBag
  /\ UNCHANGED <<coins, ustate, order, ledger, audits, jobs, nadmin, cancelled,
                 mails, now, lost, roles, upg>>

\* the order left to the scheduler of a process that may stop at any point;
\* the job document is removed by a run (job.remove() first) or, the
\* removal not having got through, still there after it
NextRestart ==
  \/ tick
  \/ restart
  \/ \E l \in LocationInputs, d \in 0..MaxClock : createOrder(l, d)
  \/ \E h \in InFlight : createOrderSchedule(h, TRUE)
  \/ \E u \in Users : joinOrderFind(u, Given)
  \/ \E h \in InFlight : joinOrderSave(h)
  \/ \E u \in Users : leaveOrder(u)
  \/ \E j \in jobs, removed \in BOOLEAN : Due(j) /\ closingOrderJob(j, removed)
  \/ \E h \in InFlight : closingOrderSchedule(h, TRUE)
  \/ \E j \in jobs, removed \in BOOLEAN : Due(j) /\ closeOrderJob(j, removed)
  \/ \E h \in InFlight : closeOrderByIdSave(h)

\* as FairAuto; nothing obliges the process to stop
FairRestart ==
  /\ WF_vars(tick)
  /\ WF_vars(\E h \in InFlight : createOrderSchedule(h, TRUE))
  /\ WF_vars(\E h \in InFlight : joinOrderSave(h))
  /\ SF_vars(\E j \in jobs, removed \in BOOLEAN : Due(j) /\ closingOrderJob(j, removed))
  /\ WF_vars(\E h \in InFlight : closingOrderSchedule(h, TRUE))
  /\ SF_vars(\E j \in jobs, removed \in BOOLEAN : Due(j) /\ closeOrderJob(j, removed))
  /\ WF_vars(\E h \in InFlight : closeOrderByIdSave(h))

SpecRestart == Init /\ [][NextRestart]_vars /\ FairRestart

\* ------------------------------------------------------------- claims
RECURSIVE EntryNet(_)
\* the sum of newValue - previousValue over a sequence of ledger entries
EntryNet(es) ==
  IF es = <<>> THEN 0
  ELSE (Head(es).newValue - Head(es).previousValue) + EntryNet(Tail(es))

RECURSIVE LedgerNet(_)
LedgerNet(l) == IF l = <<>> THEN 0 ELSE EntryNet(Head(l).entries) + LedgerNet(Tail(l))

RECURSIVE TotalCoins(_)
TotalCoins(S) ==
  IF S = {} THEN 0
  ELSE LET u == CHOOSE x \in S : TRUE IN coins[u] + TotalCoins(S \ {u})

Settlements == {i \in 1..Len(ledger) : ledger[i].description = "Logged order"}

\* the step commits a settlement
SettlementCommits ==
  /\ Len(ledger') = Len(ledger) + 1
  /\ ledger'[Len(ledger')].description = "Logged order"

\* C1: every settlement's LedgerEntry has entries whose (newValue -
\* previousValue) sum to zero, whoever the purchaser is.
C1_SettlementNetZero ==
  \A i \in Settlements : EntryNet(ledger[i].entries) = 0

\* C2: at most one settlement ever commits for the order: at most one
\* 'Logged order' LedgerEntry exists for it.
C2_AtMostOneSettlement == Cardinality(Settlements) <= 1

\* C3: a settlement whose purchaser is one of the order's n participants
\* raises the purchaser's coins by cost * (n - 1), lowers every other
\* participant's coins by cost, changes nobody else, and records exactly
\* those changes, one entry per user, in its LedgerEntry.
C3_SettlementDeltas ==
  [][(SettlementCommits /\ order'.purchaser \in Range(order.userOrders)) =>
       LET p == order'.purchaser
           n == Len(order.userOrders)
           c == order.cost
           others == Range(order.userOrders) \ {p}
           es == ledger'[Len(ledger')].entries
       IN /\ coins'[p] = coins[p] + c * (n - 1)
          /\ \A u \in others : coins'[u] = coins[u] - c
          /\ \A u \in Users \ (others \cup {p}) : coins'[u] = coins[u]
          /\ ~HasDuplicates([i \in 1..Len(es) |-> es[i].user])
          /\ {es[i].user : i \in 1..Len(es)} = others \cup {p}
          /\ \A i \in 1..Len(es) :
               /\ es[i].previousValue = coins[es[i].user]
               /\ es[i].newValue = coins'[es[i].user]]_vars

\* C3 happens: A bought for A, B and C at cost 5
C3_Witness ==
  /\ order.state = "Archived"
  /\ order.purchaser = "A"
  /\ order.cost = 5
  /\ Range(order.userOrders) = {"A", "B", "C"}
  /\ Len(order.userOrders) = 3
  /\ Settlements # {}
  /\ coins = [A |-> 10, B |-> -5, C |-> -5]

SettlementPcs == {"logPurchaser", "logParticipants", "logOrderSave", "logCommit"}

\* a settlement in flight takes a step: starts, advances, fails or commits
SettlementSteps ==
  \E pc \in SettlementPcs :
    CountOf(handlers', {h \in BagToSet(handlers') : h.pc = pc})
      # CountOf(handlers, {h \in InFlight : h.pc = pc})

\* C4: no step of a settlement other than its commit changes any user's
\* coins, the order, the ledger or the audit log: a settlement that fails
\* leaves them as they were and nothing partial is visible meanwhile.
C4_SettlementAllOrNothing ==
  [][(SettlementSteps /\ ~SettlementCommits) =>
       UNCHANGED <<coins, ustate, order, ledger, audits>>]_vars

\* C4 happens: a settlement has buffered the purchaser's credit, the
\* participants' debits and the order's change, and nothing has committed
C4_Witness ==
  \E h \in InFlight :
    /\ h.pc = "logCommit"
    /\ Cardinality(h.wset) >= 2
    /\ h.worder
    /\ order.state = "Closed"
    /\ coins = ZeroCoins
    /\ ledger = <<>>

RECURSIVE AllEntries(_)
\* the entries of every LedgerEntry, oldest first
AllEntries(l) == IF l = <<>> THEN <<>> ELSE Head(l).entries \o AllEntries(Tail(l))

RECURSIVE LedgerReplays(_, _)
\* replaying the entries es from the balances bal: each previousValue is the
\* balance the replay has reached, and the balances at the end are the coins
\* of the users that exist
LedgerReplays(bal, es) ==
  IF es = <<>> THEN \A u \in Users : Exists(u) => coins[u] = bal[u]
  ELSE /\ Head(es).previousValue = bal[Head(es).user]
       /\ LedgerReplays([bal EXCEPT ![Head(es).user] = Head(es).newValue], Tail(es))

\* C5: a user's coins are the newValue of the latest ledger entry that names
\* the user (the initial balance when none does), and an entry's
\* previousValue is the user's balance right before the operation.
C5_LedgerMatchesCoins == LedgerReplays(ZeroCoins, AllEntries(ledger))

\* C5 happens: a forced adjustment and then a transfer both name one user
C5_Witness ==
  /\ Len(ledger) = 2
  /\ ledger[1].description = "Forced coin update"
  /\ ledger[2].description = "Coin transfer"
  /\ \E i \in 1..2 : ledger[2].entries[i].user = ledger[1].entries[1].user
  /\ \E u \in Users : coins[u] = 4

\* C6: the coins of all users sum to the initial total plus the deltas of
\* all LedgerEntries, user deletion included, and every LedgerEntry other
\* than a forced adjustment has deltas that sum to zero.
C6_Conservation ==
  /\ TotalCoins(Users) = LedgerNet(ledger)
  /\ \A i \in 1..Len(ledger) :
       ledger[i].description # "Forced coin update" => EntryNet(ledger[i].entries) = 0

AllowedTransitions ==
  {<<"None", "Open">>, <<"Open", "Closing">>, <<"Open", "Closed">>,
   <<"Open", "Cancelled">>, <<"Closing", "Closed">>, <<"Closing", "Cancelled">>,
   <<"Closed", "Archived">>, <<"Closed", "Cancelled">>}

\* C7: the order's state changes only along Open->Closing, Open->Closed,
\* Open->Cancelled, Closing->Closed, Closing->Cancelled, Closed->Archived,
\* Closed->Cancelled; Archived and Cancelled orders never change state.
C7_StateTransitions ==
  [][order'.state # order.state =>
       <<order.state, order'.state>> \in AllowedTransitions]_vars

\* C8: a join or a leave changes the participants only while the order is
\* Open or Closing.
C8_JoinLeaveOnlyOpenClosing ==
  [][(order'.userOrders # order.userOrders /\ order'.state = order.state) =>
       order.state \in {"Open", "Closing"}]_vars

\* C9: no user is listed twice among the order's participants.
C9_ParticipantsUnique == ~HasDuplicates(order.userOrders)

\* C10: once a cancel has taken effect the participants stay empty and no
\* settlement commits.
C10_CancelIsFinal ==
  [][cancelled => (order'.userOrders = <<>> /\ ~SettlementCommits)]_vars

\* C12: an order whose state is Closed has at least one participant.
C12_ClosedHasParticipants ==
  order.state = "Closed" => Len(order.userOrders) >= 1

\* the step is the order.save() of a closeOrderById called by the closeOrder job
JobCloseSaves ==
  \E h \in InFlight :
    /\ h.pc = "closeSave"
    /\ ~h.manual
    /\ CopiesIn(h, handlers') < CopiesIn(h, handlers)

\* C18: the save of a closeOrder job that lands after a manual close, a cancel
\* or a settlement has taken effect leaves the order as that action left it.
C18_LateJobCloseIsNoOp ==
  [][(JobCloseSaves /\ order.state \in {"Closed", "Cancelled", "Archived"}) =>
       order' = order]_vars

\* no cancelOrder request is between its update and its agenda.cancel
NoCancelJobsPending == \A h \in InFlight : h.pc # "cancelJobs"

\* C19: once a cancel of the order has completed, no closingOrder or
\* closeOrder job is pending for it, and none appears later.
C19_NoJobsAfterCancel ==
  (cancelled /\ NoCancelJobsPending) => jobs = {}

\* the step commits a transfer
TransferCommits ==
  /\ Len(ledger') = Len(ledger) + 1
  /\ ledger'[Len(ledger')].description = "Coin transfer"

\* what a committing transfer h of a coins from X to Y does
TransferEffect(h) ==
  LET X == h.user
      Y == h.other
      a == h.amount
      es == ledger'[Len(ledger')].entries
  IN /\ a >= 1
     /\ coins'[X] = coins[X] - a
     /\ coins'[Y] = coins[Y] + a
     /\ \A u \in Users \ {X, Y} : coins'[u] = coins[u]
     /\ es = <<[user |-> Y, previousValue |-> coins[Y], newValue |-> coins[Y] + a],
               [user |-> X, previousValue |-> coins[X], newValue |-> coins[X] - a]>>
     /\ Len(audits') = Len(audits) + 1

\* the transfer handler whose transaction the step commits
Committing(h) ==
  /\ h.pc = "xferCommit"
  /\ CopiesIn(h, handlers') < CopiesIn(h, handlers)

SelfTransferEffect(h) ==
  LET X == h.user
      a == h.amount
  IN /\ coins' = coins
     /\ ledger'[Len(ledger')].entries =
          <<[user |-> X, previousValue |-> coins[X], newValue |-> coins[X] + a],
            [user |-> X, previousValue |-> coins[X] + a, newValue |-> coins[X]]>>
     /\ Len(audits') = Len(audits) + 1

SenderBalanceBeforeDebit(h) ==
  IF h.user = h.other THEN coins[h.user] + h.amount ELSE coins[h.user]

\* C14: every transfer that commits has amount <= the sender's balance as it
\* stands right before the transfer's debit, whatever else is in flight.
C14_TransferWithinBalance ==
  [][TransferCommits =>
       \E h \in InFlight :
         Committing(h) /\ h.amount <= SenderBalanceBeforeDebit(h)]_vars

\* the step is the order.save() of a closeOrderById
CloseSaves ==
  \E h \in InFlight :
    /\ h.pc = "closeSave"
    /\ CopiesIn(h, handlers') < CopiesIn(h, handlers)

\* C11: with nothing else in flight, a close (manual or by the closeOrder
\* job) of an order in Open or Closing takes it to Closed when it has
\* participants and straight to Cancelled when it has none, and leaves the
\* participants as they are.
C11_CloseByParticipation ==
  [][(CloseSaves /\ order.state \in {"Open", "Closing"}) =>
       /\ order'.state =
            IF Len(order.userOrders) > 0 THEN "Closed" ELSE "Cancelled"
       /\ order'.userOrders = order.userOrders]_vars

\* C11 happens: an order without participants was closed, not cancelled by
\* a cancel request, and is Cancelled
C11_Witness ==
  /\ order.state = "Cancelled"
  /\ ~cancelled
  /\ handlers = EmptyBag

\* the handlers of kind pc that the step starts
Started(pc) ==
  {h \in BagToSet(handlers') : h.pc = pc /\ CopiesIn(h, handlers') > CopiesIn(h, handlers)}

\* the step starts or ends a rejected transfer request
RejectedTransferSteps ==
  \E h \in InFlight \cup BagToSet(handlers') :
    h.pc = "xferRejected" /\ CopiesIn(h, handlers') # CopiesIn(h, handlers)

\* C13: a transfer request whose amount exceeds the sender's balance or is
\* below 1 never starts the transfer's transaction, and the request that is
\* rejected changes no user's coins, no LedgerEntry and no AuditEntry.
C13_InvalidTransferRejected ==
  [][/\ \A h \in Started("xferTarget") : h.amount >= 1 /\ h.amount <= coins[h.user]
     /\ RejectedTransferSteps => UNCHANGED <<coins, ledger, audits>>]_vars

\* C13 happens: a transfer of 11 coins from a balance of 10 has been rejected
C13_Witness ==
  \E h \in InFlight :
    /\ h.pc = "xferRejected"
    /\ h.amount = 11
    /\ coins[h.user] = 10
    /\ Len(ledger) = 1
    /\ Len(audits) = 1

\* the step is a run of the 'closingOrder' job
ClosingOrderRuns == \E j \in jobs, removed \in BOOLEAN : closingOrderJob(j, removed)

\* the step takes the order from Open to Closing
OpenToClosing == order.state = "Open" /\ order'.state = "Closing"

\* C16: the Open -> Closing transition takes effect at most once and the
\* 'orderClosing' notification is sent at most once, also when the
\* closingOrder job is delivered again: the transition happens only while no
\* notification has been sent, it sends exactly one, a notification is sent
\* only with the transition, and so there is never more than one.
C16_ClosingAtMostOnce ==
  /\ [][/\ OpenToClosing => (mails = 0 /\ mails' = 1)
        /\ mails' # mails => OpenToClosing]_vars
  /\ [](mails <= 1)

\* C16 happens: the job has run, moved the order to Closing, sent the
\* notification and scheduled the close, and its document is still due
C16_Witness ==
  /\ order.state = "Closing"
  /\ mails = 1
  /\ \E j \in jobs : j.name = "closingOrder" /\ Due(j)
  /\ \E j \in jobs : j.name = "closeOrder"
  /\ handlers = EmptyBag

\* C17: a run of the closingOrder job for an order that is not Open changes
\* neither state, closeDate nor participants of the order, sends no
\* notification and goes on to no scheduling of a closeOrder job.
C17_ClosingJobNoOp ==
  [][(ClosingOrderRuns /\ order.state # "Open") =>
       /\ order' = order
       /\ mails' = mails
       /\ Started("closingSchedule") = {}
       /\ jobs' \subseteq jobs]_vars

\* C17 happens: POST /close has written Closed and not yet cancelled the
\* jobs, and the closingOrder job is gone without a notification: it ran
\* on the order after the close
C17_Witness ==
  /\ order.state = "Closed"
  /\ ~cancelled
  /\ mails = 0
  /\ jobs = {}
  /\ BagCardinality(handlers) = 1
  /\ \E h \in InFlight : h.pc = "closeCancelJobs"

\* C20: while the order awaits its automatic close, the pending closeOrder
\* job is due at the order's closeDate.
C20_CloseJobDueAtCloseDate ==
  \A j \in jobs :
    (j.name = "closeOrder" /\ order.state \in {"Open", "Closing"}) =>
      j.due = order.closeDate

\* left to the scheduler, an order that is Open gets to Closing and an order
\* that is Closing gets to Closed or Cancelled
AutoCloseHappens ==
  /\ (order.state = "Open") ~> (order.state = "Closing")
  /\ (order.state = "Closing") ~> (order.state \in {"Closed", "Cancelled"})

\* the order leaves Open for Closing only, and leaves Closing for Closed when
\* it has participants and for Cancelled when it has none
AutoCloseByParticipation ==
  [][/\ order.state = "Open" => order'.state \in {"Open", "Closing"}
     /\ (order.state = "Closing" /\ order'.state # "Closing") =>
          order'.state = IF Len(order'.userOrders) > 0 THEN "Closed" ELSE "Cancelled"]_vars

\* C21: with no manual close or cancel, every scheduled job eventually run
\* and storage succeeding, every created order reaches Closing and then
\* Closed if it has participants, Cancelled if it has none.
C21_AutoClose == AutoCloseHappens /\ AutoCloseByParticipation

\* C22: whenever the process stops and starts again after the order was
\* created, the order still gets to Closed or Cancelled without manual action.
C22_AutoCloseSurvivesRestart ==
  [](order.state \in {"Open", "Closing"} => <>(order.state \in {"Closed", "Cancelled"}))

\* the step starts or ends a settlement request whose findOne found no order
FailedSettleSteps ==
  \E h \in InFlight \cup BagToSet(handlers') :
    h.pc = "logFailed" /\ CopiesIn(h, handlers') # CopiesIn(h, handlers)

\* C23: a settlement request for an order that is not Closed (Archived by an
\* earlier settlement, Cancelled, Open, Closing) starts no settlement, and
\* the request that fails changes no user's coins, no field of the order, no
\* LedgerEntry and no AuditEntry.
C23_SettleNotClosedFails ==
  [][/\ Started("logPurchaser") # {} => order.state = "Closed"
     /\ FailedSettleSteps => UNCHANGED <<coins, ustate, order, ledger, audits>>]_vars

\* C23 happens: the order was settled and is Archived, and a second
\* settlement request for it has failed
C23_Witness ==
  /\ order.state = "Archived"
  /\ Settlements # {}
  /\ \E h \in InFlight : h.pc = "logFailed"

\* no user document has the id u
NoSuchUser(u) == u \notin Users \/ ustate[u] = "deleted"

\* the step is the purchaser update of a settlement whose purchaser id
\* resolves to no user
PurchaserMissingSteps ==
  \E h \in InFlight :
    /\ h.pc = "logPurchaser"
    /\ NoSuchUser(h.other)
    /\ CopiesIn(h, handlers') < CopiesIn(h, handlers)

\* C24: a settlement whose purchaser id resolves to no existing user goes no
\* further: the order stays Closed with no purchaser, no user's coins change
\* and no LedgerEntry or AuditEntry is created.
C24_SettleUnknownPurchaserFails ==
  [][PurchaserMissingSteps =>
       /\ order' = order
       /\ order.state = "Closed"
       /\ order.purchaser = NoUser
       /\ Started("logParticipants") = {}
       /\ UNCHANGED <<coins, ustate, ledger, audits>>]_vars

\* C24 happens: a settlement of a Closed order with a participant is in
\* flight for a purchaser id that resolves to no user; its next step is the
\* purchaser update
C24_Witness ==
  /\ order.state = "Closed"
  /\ Len(order.userOrders) >= 1
  /\ \E h \in InFlight : h.pc = "logPurchaser" /\ h.other = "ghost"

\* the join requests whose order.save() is this step
JoinSaves ==
  {h \in InFlight : h.pc = "joinSave" /\ CopiesIn(h, handlers') < CopiesIn(h, handlers)}

\* C25: a join by a user who is a participant already, and a join on an
\* order that is not Open or Closing, leave the participants as they are.
\* (A leave is one conditional update: when the user is no participant or
\* the order is not Open or Closing it matches nothing and takes no step.)
C25_JoinLeaveRejected ==
  [][\A h \in JoinSaves :
       (h.user \in Range(order.userOrders) \/ order.state \notin {"Open", "Closing"})
         => order'.userOrders = order.userOrders]_vars

\* sequence s is the beginning of sequence t
IsPrefix(s, t) == Len(s) <= Len(t) /\ SubSeq(t, 1, Len(s)) = s

\* the handlers about to commit a settlement, a transfer or a forced adjustment
CommitPcs == {"logCommit", "xferCommit", "setCommit"}

\* the step ends a handler that was about to commit
CommitterLeaves ==
  \E h \in InFlight :
    h.pc \in CommitPcs /\ CopiesIn(h, handlers') < CopiesIn(h, handlers)

\* C26: ledger and audit log are append-only: every step leaves the entries
\* there are in place and unchanged, and a step that adds any adds exactly
\* one LedgerEntry and one AuditEntry and is the commit of a settlement, a
\* transfer or a forced adjustment.
C26_AppendOnly ==
  [][/\ IsPrefix(ledger, ledger')
     /\ IsPrefix(audits, audits')
     /\ (ledger' # ledger \/ audits' # audits) =>
          /\ Len(ledger') = Len(ledger) + 1
          /\ Len(audits') = Len(audits) + 1
          /\ ledger'[Len(ledger')].description
               \in {"Logged order", "Coin transfer", "Forced coin update"}
          /\ audits'[Len(audits')] = ledger'[Len(ledger')].description
          /\ CommitterLeaves]_vars

\* C26 happens: a forced adjustment and then a settlement have committed,
\* and a user has been deleted since
C26_Witness ==
  /\ Len(ledger) = 2
  /\ Len(audits) = 2
  /\ ledger[1].description = "Forced coin update"
  /\ ledger[2].description = "Logged order"
  /\ \E u \in Users : ustate[u] = "deleted"

\* the forced adjustments that commit in this step
SetCoinsCommits ==
  {h \in InFlight : /\ h.pc = "setCommit"
                    /\ CopiesIn(h, handlers') < CopiesIn(h, handlers)
                    /\ Len(ledger') = Len(ledger) + 1}

\* the step starts or ends a forced adjustment that found no user
FailedSetCoinsSteps ==
  \E h \in InFlight \cup BagToSet(handlers') :
    h.pc = "setFailed" /\ CopiesIn(h, handlers') # CopiesIn(h, handlers)

\* C27: a forced adjustment of user u to v that commits sets u's coins to v,
\* changes no other user's, and appends one LedgerEntry with the single
\* entry (u, balance just before, v) and one AuditEntry; it is started only
\* for a user that exists, and one for an unknown id changes nothing.
C27_SetCoinsEffect ==
  [][/\ \A h \in SetCoinsCommits :
          /\ coins' = [coins EXCEPT ![h.user] = h.amount]
          /\ ledger' = Append(ledger,
                [description |-> "Forced coin update",
                 entries |-> <<[user |-> h.user,
                                previousValue |-> coins[h.user],
                                newValue |-> h.amount]>>])
          /\ audits' = Append(audits, "Forced coin update")
     /\ \A h \in Started("setCommit") : ~NoSuchUser(h.user)
     /\ FailedSetCoinsSteps => UNCHANGED <<coins, ustate, order, ledger, audits>>]_vars

\* C27 happens: A was set from 0 to 10 coins, which is all the ledger
\* records, and a forced adjustment for an unknown id has failed
C27_Witness ==
  /\ coins = [ZeroCoins EXCEPT !["A"] = 10]
  /\ Len(ledger) = 1
  /\ ledger[1].entries = <<[user |-> "A", previousValue |-> 0, newValue |-> 10]>>
  /\ audits = <<"Forced coin update">>
  /\ \E h \in InFlight : h.pc = "setFailed" /\ h.user = "ghost"

\* the step ends the creation of the order after its mail was not sent
CreateMailFails == \E h \in InFlight : createOrderSchedule(h, FALSE)

\* the step ends the closingOrder job after its mail was not sent
ClosingMailFails == \E h \in InFlight : closingOrderSchedule(h, FALSE)

\* the step commits a settlement whose mail is then not sent
LoggedMailFails == \E h \in InFlight : logOrderCommit(h, FALSE, TRUE)

\* C28: a notification that fails to send undoes and blocks nothing: at
\* creation the order is there and its closingOrder job gets scheduled; in
\* the closingOrder job the order stays as the job left it and the closeOrder
\* job gets scheduled; after a settlement's commit the order is Archived and
\* the settlement's LedgerEntry is in the ledger; and no step ever takes a
\* committed settlement out of the ledger.
C28_MailFailureHarmless ==
  [][/\ CreateMailFails =>
          /\ order' = order
          /\ order.state # NoOrder
          /\ \E j \in jobs' : j.name = "closingOrder"
     /\ ClosingMailFails =>
          /\ order.state = "Closing"
          /\ order' = order
          /\ \E j \in jobs' : j.name = "closeOrder"
     /\ LoggedMailFails =>
          /\ order'.state = "Archived"
          /\ SettlementCommits
     /\ lost # {} => IsPrefix(ledger, ledger')]_vars

\* C28 happens: none of the three notifications was sent, and the order has
\* been created, automatically closed and settled all the same
C28_Witness ==
  /\ lost = {"orderCreated", "orderClosing", "loggedOrder"}
  /\ order.state = "Archived"
  /\ Settlements # {}
  /\ jobs = {}

\* requester r is a user, enabled, and holds the role (any user holds "none")
Permitted(r, role) ==
  /\ r \in Users
  /\ ustate[r] = "enabled"
  /\ role = "none" \/ role \in roles[r]

\* some requester is permitted for the role
SomePermitted(role) == \E r \in Requesters : Permitted(r, role)

\* the step is a request of r for the operation of a role-guarded route
OrderCreatorRequest(r) ==
  \/ \E l \in LocationInputs, d \in CloseDateInputs : postCreate(r, l, d)
  \/ getClose(r)
  \/ getCancel(r)
  \/ \E p \in PurchaserInputs : postLog(r, p)

AdminRequest(r) == \E u \in Users, v \in SetCoinsInputs : postSetCoins(r, u, v)

\* the step starts or ends a request the middleware stopped
DeniedSteps ==
  \E h \in InFlight \cup BagToSet(handlers') :
    h.pc = "denied" /\ CopiesIn(h, handlers') # CopiesIn(h, handlers)

\* the description of the entry the step appends to the ledger
Appended == IF Len(ledger') = Len(ledger) + 1 THEN ledger'[Len(ledger')].description
            ELSE "nothing"

\* C29: with one request at a time, no order or coin operation takes effect
\* for a requester who is unauthenticated or disabled; create, close, cancel
\* and settle only for a requester holding 'order-creator', a forced
\* adjustment only for one holding 'admin'; and a denied request changes no
\* order, balance, ledger or audit state.
C29_OnlyPermittedRequests ==
  [][/\ \A r \in Requesters :
          /\ ~Permitted(r, "order-creator") => ~OrderCreatorRequest(r)
          /\ ~Permitted(r, "admin") => ~AdminRequest(r)
     /\ \A h \in Started("joinSave") \cup Started("xferTarget") : Permitted(h.user, "none")
     /\ order'.state = order.state =>
          \A u \in Range(order.userOrders) \ Range(order'.userOrders) : Permitted(u, "none")
     /\ order'.state # order.state => SomePermitted("order-creator")
     /\ Appended = "Logged order" => SomePermitted("order-creator")
     /\ Appended = "Forced coin update" => SomePermitted("admin")
     /\ Appended = "Coin transfer" =>
          \E u \in Users : Permitted(u, "none") /\ coins'[u] <= coins[u]
     /\ DeniedSteps => UNCHANGED <<coins, ustate, order, ledger, audits, jobs, roles, upg>>]_vars

\* C29 happens: B was given both roles and then disabled, nobody else holds
\* one, and B's request was stopped while the order stays open
C29_Witness ==
  /\ roles["B"] = {"admin", "order-creator"}
  /\ ustate["B"] = "disabled"
  /\ roles["A"] = {}
  /\ order.state = "Open"
  /\ \E h \in InFlight : h.pc = "denied" /\ h.user = "B"

\* the settlements that commit in this step
CommittingSettlements ==
  {h \in InFlight : /\ h.pc = "logCommit"
                    /\ CopiesIn(h, handlers') < CopiesIn(h, handlers)
                    /\ Len(ledger') = Len(ledger) + 1}

\* C30: no settlement commits for an order that has no participants: the
\* order it read had at least one, and the credit it applied to the
\* purchaser, cost * (participants - 1), is not negative.
C30_NoEmptySettlement ==
  [][\A h \in CommittingSettlements :
       /\ Len(h.userOrders) >= 1
       /\ h.cost * (Len(h.userOrders) - 1) >= 0]_vars

\* the requests for a cancel and for a manual close that start in this step
CancelRequests == Started("cancelJobs")
CloseRequests == {h \in Started("closeSave") : h.manual} \cup Started("closeFailed")

\* C31: a cancel of an order that is Archived or Cancelled, and a manual
\* close of one that is Closed, Archived or Cancelled, leave the order as it
\* is and are reported as a failure, not as a success.
C31_WrongStateReported ==
  [][/\ \A h \in CancelRequests :
          order.state \in {"Archived", "Cancelled"}
            => order' = order /\ OrderFlash(h.pc) = "error"
     /\ \A h \in CloseRequests :
          order.state \in {"Closed", "Archived", "Cancelled"}
            => order' = order /\ OrderFlash(h.pc) = "error"]_vars

\* the users a LedgerEntry lists, in its order
EntryUsers(e) == [i \in 1..Len(e.entries) |-> e.entries[i].user]

\* the AuditEntries of settlements
SettlementAudits == {i \in 1..Len(audits) : audits[i] = "Logged order"}

\* a settlement's changes, each of them
SettledOrder == order.state = "Archived"
PurchaserSet == order.purchaser # "nobody"

\* the four changes of a settlement are all there or none is
SettledTogether ==
  /\ SettledOrder <=> PurchaserSet
  /\ SettledOrder <=> Settlements # {}
  /\ SettledOrder <=> SettlementAudits # {}
  /\ Cardinality(Settlements) <= 1
  /\ Cardinality(SettlementAudits) <= 1

\* C32: a settlement that commits archives the order, sets its purchaser to
\* the user supplied, and appends exactly one LedgerEntry, listing the
\* purchaser and every other participant, and exactly one AuditEntry, all in
\* one step; before and after every step either all of these changes are
\* there or none is.
C32_SettlementAtomic ==
  [][/\ SettledTogether /\ SettledTogether'
     /\ \A h \in CommittingSettlements :
          /\ ~SettledOrder /\ SettledOrder'
          /\ order'.purchaser = h.other
          /\ Len(ledger') = Len(ledger) + 1
          /\ EntryUsers(ledger'[Len(ledger')])
               = <<h.other>> \o SelectSeq(order.userOrders, LAMBDA u : u # h.other)
          /\ audits' = Append(audits, "Logged order")]_vars

\* C33: an order has a purchaser only if it has been settled: none while it
\* is Open, Closing, Closed or Cancelled, and one when it is Archived.
C33_PurchaserOnlySettled ==
  /\ order.state \in {"Open", "Closing", "Closed", "Cancelled"} => order.purchaser = "nobody"
  /\ order.state = "Archived" => order.purchaser # "nobody"

\* the larger of two instants
Later(a, b) == IF a >= b THEN a ELSE b

\* the closingOrder jobs the step adds
ClosingJobsAdded == {j \in jobs' \ jobs : j.name = "closingOrder"}

\* C34: the closingOrder job of a new order is scheduled at closeDate minus
\* orderCloseTimeout when that is not before the time of creation and at the
\* time of creation otherwise: never before it, and never later than the
\* later of the two.
C34_ClosingJobTime ==
  [][/\ \A h \in Started("createSchedule") :
          /\ (order'.closeDate - orderCloseTimeout >= now
                => h.time = order'.closeDate - orderCloseTimeout)
          /\ (order'.closeDate - orderCloseTimeout < now => h.time = now)
          /\ h.time >= now
          /\ h.time <= Later(now, order'.closeDate - orderCloseTimeout)
     /\ \A j \in ClosingJobsAdded :
          \E h \in InFlight :
            /\ h.pc = "createSchedule"
            /\ CopiesIn(h, handlers') < CopiesIn(h, handlers)
            /\ j.due = h.time]_vars

\* C34 happens: one order was created late, its job is due at the time of
\* its creation
C34_WitnessClamped ==
  /\ order.state = "Open"
  /\ order.openDate = 2
  /\ order.closeDate = 3
  /\ jobs = {[name |-> "closingOrder", due |-> 2]}

\* the closes, manual or scheduled, whose order.save() is this step
SavingCloses ==
  {h \in InFlight : h.pc = "closeSave" /\ CopiesIn(h, handlers') < CopiesIn(h, handlers)}

\* the step is a cancel that found its order
CancelTakesEffect ==
  /\ Started("cancelJobs") # {}
  /\ order.state \in {"Open", "Closing", "Closed"}

\* the step is a join's save, a leave, or the transition from Open to Closing
JoinLeaveOrClosing ==
  \/ JoinSaves # {}
  \/ order'.state = order.state /\ order'.userOrders # order.userOrders
  \/ order.state = "Open" /\ order'.state = "Closing"

\* C35: a close, manual or scheduled, sets the order's closeDate to the time
\* the close was performed (the time closeOrderById read the clock, which is
\* not after the write); a cancel that takes effect sets closeDate to the
\* time of the cancel and empties the participants; join, leave and the
\* transition from Open to Closing leave closeDate, cost, location and
\* openDate as they are.
C35_CloseDateFrozen ==
  [][/\ \A h \in Started("closeSave") : h.time = now
     /\ \A h \in SavingCloses : order'.closeDate = h.time /\ h.time <= now
     /\ CancelTakesEffect =>
          /\ order'.state = "Cancelled"
          /\ order'.closeDate = now
          /\ order'.userOrders = <<>>
     /\ JoinLeaveOrClosing =>
          /\ order'.closeDate = order.closeDate
          /\ order'.cost = order.cost
          /\ order'.location = order.location
          /\ order'.openDate = order.openDate]_vars

\* C35 happens: an order created at 0 to close at 4 was closed at 2 with its
\* participant, and the clock has moved on
C35_Witness ==
  /\ order.state = "Closed"
  /\ order.openDate = 0
  /\ order.closeDate = 2
  /\ order.userOrders = <<"A">>
  /\ now = 3

\* the join requests that start in this step, accepted or rejected
JoinRequests == Started("joinSave") \cup Started("joinFailed")

\* C36: a join that omits a required field or sends it empty, or whose
\* order's type is not configured, is rejected and leaves the participants
\* as they are; a join that is accepted appends exactly one participant
\* entry, for the requesting user.
C36_JoinFields ==
  [][/\ \A h \in JoinRequests :
          (h.details \in {"undefined", ""} \/ order.location # "tenders")
            => h.pc = "joinFailed"
     /\ \A h \in Started("joinFailed") : order' = order
     /\ \A h \in JoinSaves : order'.userOrders = Append(order.userOrders, h.user)
     /\ Len(order'.userOrders) > Len(order.userOrders) => JoinSaves # {}]_vars

\* C36 happens: B has joined, and A's join with an empty field is rejected
C36_Witness ==
  /\ order.state = "Open"
  /\ order.userOrders = <<"B">>
  /\ \E h \in InFlight : h.pc = "joinFailed" /\ h.user = "A" /\ h.details = ""

\* the positions of a settlement, a transfer and a forced adjustment
CoinPcs == {"logPurchaser", "logParticipants", "logOrderSave", "logCommit",
            "xferTarget", "xferSource", "xferCommit", "setCommit"}

\* the settlements, transfers and forced adjustments whose chain ends, or
\* goes on to the catch, in this step
Ending ==
  {h \in InFlight : h.pc \in CoinPcs /\ CopiesIn(h, handlers') < CopiesIn(h, handlers)
                                      /\ \A p \in CoinPcs : Started(p) = {}}

\* how the chain of h ends in this step
Outcome(h) ==
  IF Len(ledger') = Len(ledger)
  THEN "abort"
  ELSE IF Started("logCommitFailed") # {} THEN "commitThenCatch" ELSE "commit"

\* the step commits writes
Commits == ledger' # ledger \/ audits' # audits \/ coins' # coins \/ order' # order

\* C37: a settlement, transfer or forced adjustment that reports a failure,
\* or no success, has committed none of its writes, and one that has
\* committed reports success; a settlement does not end with its writes
\* committed and 'Failed to log order' flashed.
C37_ReportMatchesCommit ==
  [][\A h \in Ending :
       /\ ("error" \in Reports(h.pc, Outcome(h)) \/ "success" \notin Reports(h.pc, Outcome(h)))
            => ~Commits
       /\ Commits => "success" \in Reports(h.pc, Outcome(h))]_vars

\* the transfers and forced adjustments whose transaction fails in this step
FailingCoinOps ==
  {h \in Ending : h.pc \in {"xferTarget", "xferSource", "xferCommit", "setCommit"}
                  /\ Outcome(h) = "abort"}

\* C38: a transfer or forced adjustment whose transaction fails after it
\* started reports an error, and a forced adjustment reports success and sends
\* 'userCoinsSet' only when its transaction commits.
C38_FailureSurfaced ==
  [][/\ \A h \in FailingCoinOps : "error" \in Reports(h.pc, "abort")
     /\ \A h \in Ending :
          (h.pc = "setCommit" /\ ("success" \in Reports(h.pc, Outcome(h))
                                   \/ "userCoinsSet" \in Notifies(h.pc)))
            => Outcome(h) = "commit"]_vars

\* C39: an order is created only with a closeDate later than the time the
\* create request is handled, and every created order starts Open, with no
\* participants and no purchaser.
C39_CreateOnlyFutureCloseDate ==
  [][\A h \in Started("createSchedule") :
       /\ order'.closeDate > now
       /\ order'.state = "Open"
       /\ order'.userOrders = <<>>
       /\ order'.purchaser = "nobody"]_vars

\* the steps that chain from version v to the target, in order
ChainFrom(v) == IF v \in {0, 1} THEN <<[from |-> 1, to |-> 2]>> ELSE <<>>

\* upgradeDatabase has ended, one way or the other
UpgradeEnded == upg.pc \in {"listening", "noStep", "funcFailed"}

\* C40: upgradeDatabase, started from any stored version (none counts as 1),
\* ends. When it ends well the stored version is the target version and the
\* steps it ran are exactly those chaining from the version it started from,
\* in order; the stored version advances only to the target of the step
\* whose upgrade function has just succeeded; it fails for want of a step
\* only when no step starts from the stored version; and no request is
\* served before it has ended well.
C40_UpgradeThenServe ==
  /\ <>UpgradeEnded
  /\ [](upg.pc = "listening" => upg.stored = 2 /\ upg.ran = ChainFrom(upg.found))
  /\ [](upg.pc = "noStep" => upg.stored \notin {1, 2})
  /\ [][upg'.stored # upg.stored =>
          \/ upg.stored = 0 /\ upg'.stored = 1 /\ upg.pc = "findOne"
          \/ /\ upg.pc = "save"
             /\ Len(upg.ran) >= 1
             /\ upg.ran[Len(upg.ran)].from = upg.stored
             /\ upg.ran[Len(upg.ran)].to = upg'.stored]_vars
  /\ []((order.state # "None" \/ handlers # EmptyBag) => upg.pc = "listening")

\* C40 happens: started without a version document, the upgrade ran the step
\* from 1 to 2, the server listens and has taken an order
C40_Witness ==
  /\ upg.pc = "listening"
  /\ upg.found = 0
  /\ upg.stored = 2
  /\ upg.ran = <<[from |-> 1, to |-> 2]>>
  /\ order.state = "Open"

====
